---- MODULE Spec2Model ----
(***************************************************************************)
(* SMART-Match (invoice-matcher/app.py): a Streamlit script that extracts  *)
(* text or images from an invoice and a purchase order, asks the Gemini    *)
(* oracle for a JSON analysis, seeds the session store and shows a match   *)
(* verdict.                                                                *)
(*                                                                         *)
(* Text is a sequence of one-character strings, so that str.strip(),       *)
(* str.startswith() and slicing act on characters as they do in Python.    *)
(* Amounts are held in thousandths (100.005 is 100005).                    *)
(***************************************************************************)
EXTENDS Integers, Sequences, FiniteSets, TLC

(* ------------------------------ bounds -------------------------------- *)

\* Longest answer body enumerated character by character (fence study).
MaxBodyLen == 3

\* Length in bytes of an uploaded blob (stream positions are 0..BlobLen).
BlobLen == 2

\* Compare runs followed within one session.
MaxRuns == 2

(* ------------------------------ strings ------------------------------- *)

\* The characters str.strip() removes, among those of the model's alphabet.
WS == {" ", "\n", "\t", "\r"}

RECURSIVE LStrip(_)
LStrip(s) == IF s # <<>> /\ Head(s) \in WS THEN LStrip(Tail(s)) ELSE s

RECURSIVE RStrip(_)
RStrip(s) ==
  IF s # <<>> /\ s[Len(s)] \in WS THEN RStrip(SubSeq(s, 1, Len(s) - 1)) ELSE s

\* str.strip()
Strip(s) == RStrip(LStrip(s))

\* str.startswith(p)
StartsWith(s, p) == Len(s) >= Len(p) /\ SubSeq(s, 1, Len(p)) = p

\* s[i:-j] for i >= 0 and j > 0
Slice(s, i, j) == IF i + 1 > Len(s) - j THEN <<>> ELSE SubSeq(s, i + 1, Len(s) - j)

RECURSIVE Join(_, _)
\* sep.join(parts)
Join(parts, sep) ==
  IF parts = <<>> THEN <<>>
  ELSE IF Len(parts) = 1 THEN parts[1]
  ELSE parts[1] \o sep \o Join(Tail(parts), sep)

(* ------------------------------- JSON --------------------------------- *)

\* A parsed JSON value. Every value has the same fields, so that any two
\* can be compared: t is the Python type; s the characters of a str; m and
\* e the digits and the number of fraction digits of a number (1.05 is
\* m = 105, e = 2; an int has e = 0); keys and items the keys and the
\* values of a dict in order, items alone the elements of a list.
JVal(t, s, m, e, keys, items) ==
  [t |-> t, s |-> s, m |-> m, e |-> e, keys |-> keys, items |-> items]

JNone == JVal("none", <<>>, 0, 0, <<>>, <<>>)
JBool(b) == JVal("bool", <<>>, IF b THEN 1 ELSE 0, 0, <<>>, <<>>)
JStr(s) == JVal("str", s, 0, 0, <<>>, <<>>)
JNum(m, e) == JVal("num", <<>>, m, e, <<>>, <<>>)
JList(items) == JVal("list", <<>>, 0, 0, <<>>, items)
JDict(keys, items) == JVal("dict", <<>>, 0, 0, keys, items)
EmptyDict == JDict(<<>>, <<>>)

Digit == {"0", "1", "2", "3", "4", "5", "6", "7", "8", "9"}

DigitVal(c) ==
  CASE c = "0" -> 0 [] c = "1" -> 1 [] c = "2" -> 2 [] c = "3" -> 3
    [] c = "4" -> 4 [] c = "5" -> 5 [] c = "6" -> 6 [] c = "7" -> 7
    [] c = "8" -> 8 [] c = "9" -> 9

\* The character at index i, or a marker past the end.
Ch(s, i) == IF i >= 1 /\ i <= Len(s) THEN s[i] ELSE "EOF"

RECURSIVE SkipWS(_, _)
\* json.decoder WHITESPACE.match(s, i).end()
SkipWS(s, i) == IF Ch(s, i) \in WS THEN SkipWS(s, i + 1) ELSE i

RECURSIVE DigitsEnd(_, _)
\* The index after the run of digits that starts at i.
DigitsEnd(s, i) == IF Ch(s, i) \in Digit THEN DigitsEnd(s, i + 1) ELSE i

RECURSIVE DigitsVal(_, _, _)
\* The decimal value of the digits s[i..j-1].
DigitsVal(s, i, j) ==
  IF j <= i THEN 0 ELSE 10 * DigitsVal(s, i, j - 1) + DigitVal(s[j - 1])

\* A parse step's result: ok, the value, and the index after it.
PFail == [ok |-> FALSE, v |-> JNone, i |-> 0]
POk(v, i) == [ok |-> TRUE, v |-> v, i |-> i]

\* json.scanner NUMBER_RE at i: (0|[1-9]\d*)(\.\d+)? (no sign, no exponent
\* in the model's alphabet).
ParseNumber(s, i) ==
  LET j == IF Ch(s, i) = "0" THEN i + 1 ELSE DigitsEnd(s, i)
      k == IF Ch(s, j) = "." /\ Ch(s, j + 1) \in Digit
           THEN DigitsEnd(s, j + 1) ELSE j
  IN  IF j = i THEN PFail
      ELSE IF k = j THEN POk(JNum(DigitsVal(s, i, j), 0), j)
      ELSE POk(JNum(DigitsVal(s, i, j) * (10 ^ (k - j - 1))
                      + DigitsVal(s, j + 1, k), k - j - 1), k)

RECURSIVE StringEnd(_, _)
\* The index of the closing quote of the string whose first character is at
\* i, or 0: strict mode rejects a control character in a string.
StringEnd(s, i) ==
  LET c == Ch(s, i)
  IN  IF c = "\"" THEN i
      ELSE IF c = "EOF" \/ c \in {"\n", "\t", "\r"} THEN 0
      ELSE StringEnd(s, i + 1)

\* json.decoder scanstring, with s[i] the opening quote.
ParseString(s, i) ==
  LET j == StringEnd(s, i + 1)
  IN  IF j = 0 THEN PFail ELSE POk(JStr(SubSeq(s, i + 1, j - 1)), j + 1)

Literal(s, i, word) ==
  Len(s) >= i + Len(word) - 1 /\ SubSeq(s, i, i + Len(word) - 1) = word

RECURSIVE ParseValue(_, _)
RECURSIVE ParseElems(_, _, _)
RECURSIVE ParseMembers(_, _, _, _)

\* json.scanner scan_once at i.
ParseValue(s, i) ==
  LET c == Ch(s, i)
  IN  IF c = "\"" THEN ParseString(s, i)
      ELSE IF c = "{" THEN
        LET j == SkipWS(s, i + 1)
        IN  IF Ch(s, j) = "}" THEN POk(EmptyDict, j + 1)
            ELSE ParseMembers(s, j, <<>>, <<>>)
      ELSE IF c = "[" THEN
        LET j == SkipWS(s, i + 1)
        IN  IF Ch(s, j) = "]" THEN POk(JList(<<>>), j + 1)
            ELSE ParseElems(s, j, <<>>)
      ELSE IF Literal(s, i, <<"n", "u", "l", "l">>) THEN POk(JNone, i + 4)
      ELSE IF Literal(s, i, <<"t", "r", "u", "e">>) THEN POk(JBool(TRUE), i + 4)
      ELSE IF Literal(s, i, <<"f", "a", "l", "s", "e">>)
        THEN POk(JBool(FALSE), i + 5)
      ELSE ParseNumber(s, i)

\* json.decoder JSONArray: the elements from i on, after those in acc.
ParseElems(s, i, acc) ==
  LET r == ParseValue(s, i)
  IN  IF ~r.ok THEN PFail
      ELSE LET j == SkipWS(s, r.i)
           IN  IF Ch(s, j) = "]" THEN POk(JList(Append(acc, r.v)), j + 1)
               ELSE IF Ch(s, j) = ","
                 THEN ParseElems(s, SkipWS(s, j + 1), Append(acc, r.v))
               ELSE PFail

\* json.decoder JSONObject: the "key": value pairs from i on.
ParseMembers(s, i, keys, items) ==
  IF Ch(s, i) # "\"" THEN PFail
  ELSE
    LET k == ParseString(s, i)
    IN  IF ~k.ok THEN PFail
        ELSE
          LET c == SkipWS(s, k.i)
          IN  IF Ch(s, c) # ":" THEN PFail
              ELSE
                LET r == ParseValue(s, SkipWS(s, c + 1))
                IN  IF ~r.ok THEN PFail
                    ELSE
                      LET j  == SkipWS(s, r.i)
                          ks == Append(keys, k.v.s)
                          vs == Append(items, r.v)
                      IN  IF Ch(s, j) = "}" THEN POk(JDict(ks, vs), j + 1)
                          ELSE IF Ch(s, j) = ","
                            THEN ParseMembers(s, SkipWS(s, j + 1), ks, vs)
                          ELSE PFail

\* json.loads(s): ok is FALSE where it raises JSONDecodeError.
Loads(s) ==
  LET r == ParseValue(s, SkipWS(s, 1))
  IN  IF r.ok /\ SkipWS(s, r.i) = Len(s) + 1 THEN POk(r.v, r.i) ELSE PFail

(* ------------------------- Extraction Client -------------------------- *)

\* The backquote character, which a TLA+ string cannot hold.
BQ == "<bq>"

\* The prefixes '```json' and '```' of lines 103 and 105.
FenceJson == <<BQ, BQ, BQ, "j", "s", "o", "n">>
Fence == <<BQ, BQ, BQ>>

\* CleanResponse without the elif of line 105: only the tagged fence is
\* stripped.
CleanResponseTaggedOnly(text) ==
  LET json_text == Strip(text)
  IN  IF StartsWith(json_text, FenceJson) THEN Strip(Slice(json_text, 7, 3))
      ELSE json_text

\* get_gemini_response, lines 101-106: the text handed to json.loads.
CleanResponse(text) ==
  LET json_text == Strip(text)
  IN  IF StartsWith(json_text, FenceJson) THEN Strip(Slice(json_text, 7, 3))
      ELSE IF StartsWith(json_text, Fence) THEN Strip(Slice(json_text, 3, 3))
      ELSE json_text

\* GetGeminiResponse with the handler of line 113 before that of line 109:
\* a JSONDecodeError is reported as an error of the API.
GetGeminiResponseOneHandler(outcome) ==
  IF outcome.kind = "error" \/ ~Loads(CleanResponse(outcome.text)).ok
  THEN [analysis |-> EmptyDict, signal |-> "OracleFailure"]
  ELSE [analysis |-> Loads(CleanResponse(outcome.text)).v, signal |-> "none"]

\* get_gemini_response from the oracle's outcome on: an outcome is the
\* answer's text, or an exception of generate_content. What it returns and
\* the error it shows.
GetGeminiResponse(outcome) ==
  IF outcome.kind = "error"
  THEN [analysis |-> EmptyDict, signal |-> "OracleFailure"]
  ELSE LET r == Loads(CleanResponse(outcome.text))
       IN  IF r.ok THEN [analysis |-> r.v, signal |-> "none"]
           ELSE [analysis |-> EmptyDict, signal |-> "MalformedResponse"]

(* ------------------------------ records ------------------------------- *)

K_invoice_data == <<"i", "n", "v", "o", "i", "c", "e", "_", "d", "a", "t", "a">>
K_po_data == <<"p", "o", "_", "d", "a", "t", "a">>
K_invoice_no == <<"i", "n", "v", "o", "i", "c", "e", "_", "n", "o">>
K_po_no == <<"p", "o", "_", "n", "o">>
K_vendor == <<"v", "e", "n", "d", "o", "r">>
K_total == <<"t", "o", "t", "a", "l">>
K_items == <<"i", "t", "e", "m", "s">>

\* 'N/A', the default the widgets show for an absent string field.
NA == JStr(<<"N", "/", "A">>)

\* 0.0, the default total.
Zero == JNum(0, 1)

\* The indices of key k in dict d.
KeyAt(d, k) == {i \in 1..Len(d.keys) : d.keys[i] = k}

Max(S) == CHOOSE x \in S : \A y \in S : y <= x

\* d.get(k, default): a later occurrence of a key replaces an earlier one.
DictGet(d, k, default) ==
  IF KeyAt(d, k) = {} THEN default ELSE d.items[Max(KeyAt(d, k))]

\* d[k] = v
DictSet(d, k, v) ==
  IF KeyAt(d, k) = {} THEN JDict(Append(d.keys, k), Append(d.items, v))
  ELSE JDict(d.keys, [d.items EXCEPT ![Max(KeyAt(d, k))] = v])

\* float(v) in thousandths, for the numbers of the model (at most three
\* fraction digits).
Float(v) == v.m * (10 ^ (3 - v.e))

\* float(x) as the value a widget hands back.
AsFloat(v) == JNum(Float(v), 3)

Abs(x) == IF x < 0 THEN -x ELSE x

\* 0.01 in thousandths (line 296).
Tolerance == 10

\* The amounts (in thousandths) the records of the model carry.
Amounts == {0, 20, 30, 100000, 100005, 100010}

\* The pairs of Amounts exactly 0.01 apart whose difference in IEEE double
\* arithmetic is below the double 0.01: 0.03 - 0.02 is
\* 0.009999999999999998, while 100.01 - 100.0 is 0.010000000000005116.
RoundsBelowTolerance == {<<20, 30>>, <<30, 20>>}

\* abs(a - b) < 0.01 in double arithmetic, for a and b in Amounts: the
\* rounding error is far below a thousandth, so it decides the comparison
\* only where the exact difference is the tolerance itself.
AbsDiffBelowTolerance(a, b) ==
  IF Abs(a - b) = Tolerance THEN <<a, b>> \in RoundsBelowTolerance
  ELSE Abs(a - b) < Tolerance

\* Python's == on two parsed values: numbers compare by value.
PyEq(a, b) ==
  IF a.t = "num" /\ b.t = "num" THEN a.m * (10 ^ b.e) = b.m * (10 ^ a.e)
  ELSE a = b

\* MatchStatus that takes a record without a vendor for a discrepancy.
MatchStatusKnownVendor(invoice, po) ==
  IF DictGet(invoice, K_vendor, JNone) # JNone
     /\ PyEq(DictGet(invoice, K_vendor, JNone), DictGet(po, K_vendor, JNone))
     /\ AbsDiffBelowTolerance(Float(DictGet(invoice, K_total, Zero)),
                              Float(DictGet(po, K_total, Zero)))
  THEN "APPROVED" ELSE "NEEDS_REVIEW"

\* Lines 295-297: the verdict on the two stored records.
MatchStatus(invoice, po) ==
  IF PyEq(DictGet(invoice, K_vendor, JNone), DictGet(po, K_vendor, JNone))
     /\ AbsDiffBelowTolerance(Float(DictGet(invoice, K_total, Zero)),
                              Float(DictGet(po, K_total, Zero)))
  THEN "APPROVED" ELSE "NEEDS_REVIEW"

\* The widget's value: its state when it has one, else its value argument.
WidgetValue(w, key, value) == IF key \in DOMAIN w THEN w[key] ELSE value

\* editable_display_doc(title, data, doc_type) with widget states w: the
\* dict it leaves in data (the caller's object, changed in place).
EditableDisplayDoc(data, doc_type, w) ==
  LET k_no  == IF doc_type = "invoice" THEN K_invoice_no ELSE K_po_no
      d1    == DictSet(data, k_no,
                 WidgetValue(w, <<doc_type, "no">>, DictGet(data, k_no, NA)))
      d2    == DictSet(d1, K_vendor,
                 WidgetValue(w, <<doc_type, "vendor">>, DictGet(d1, K_vendor, NA)))
      d3    == DictSet(d2, K_total,
                 WidgetValue(w, <<doc_type, "total">>,
                             AsFloat(DictGet(d2, K_total, Zero))))
      items == DictGet(d3, K_items, JList(<<>>))
  IN  IF items.items # <<>>
      THEN DictSet(d3, K_items, WidgetValue(w, <<doc_type, "items">>, items))
      ELSE d3

\* The widget states editable_display_doc leaves behind for doc_type.
DisplayWidgets(data, doc_type) ==
  LET items == DictGet(data, K_items, JList(<<>>))
      keys  == {<<doc_type, "no">>, <<doc_type, "vendor">>, <<doc_type, "total">>}
                 \cup (IF items.items # <<>> THEN {<<doc_type, "items">>} ELSE {})
      k_no  == IF doc_type = "invoice" THEN K_invoice_no ELSE K_po_no
  IN  [k \in keys |->
         IF k[2] = "no" THEN DictGet(data, k_no, NA)
         ELSE IF k[2] = "vendor" THEN DictGet(data, K_vendor, NA)
         ELSE IF k[2] = "total" THEN DictGet(data, K_total, Zero)
         ELSE items]

(* ------------------------------- blobs -------------------------------- *)

\* An uploaded file: ext from its name, what its bytes are (a PDF, a raster
\* image, or neither), and for a PDF the text of each page (<<>> for a page
\* with none).
Blob(ext, content, pages) == [ext |-> ext, content |-> content, pages |-> pages]

RECURSIVE SelectNonEmpty(_)
\* [t for t in texts if t]
SelectNonEmpty(texts) ==
  IF texts = <<>> THEN <<>>
  ELSE IF Head(texts) # <<>> THEN <<Head(texts)>> \o SelectNonEmpty(Tail(texts))
  ELSE SelectNonEmpty(Tail(texts))

\* GetTextWithPdfplumber without the strip() of line 125.
GetTextUnstripped(blob) ==
  IF blob.content # "pdf" THEN <<>>
  ELSE Join(SelectNonEmpty(blob.pages), <<"\n">>)

\* get_text_with_pdfplumber(file): pdfplumber raises on bytes that are no
\* PDF, and the handler returns "".
GetTextWithPdfplumber(blob) ==
  IF blob.content # "pdf" THEN <<>>
  ELSE Strip(Join(SelectNonEmpty(blob.pages), <<"\n">>))

\* PrepareImage whose handler (lines 140-142) shows the error and goes on.
PrepareImageNoStop(blob, pos) ==
  [res |-> IF blob.ext # "pdf" /\ blob.content # "image" THEN "raise" ELSE "image",
   at  |-> IF blob.ext # "pdf" THEN 0 ELSE pos]

\* prepare_image(file) with the stream at pos: "image", "stop" (st.error and
\* st.stop) or "raise" (Image.open's exception, not caught); at is where the
\* read starts: Image.open rewinds the stream, file.read() does not.
PrepareImage(blob, pos) ==
  IF blob.ext # "pdf"
  THEN [res |-> IF blob.content = "image" THEN "image" ELSE "raise", at |-> 0]
  ELSE [res |-> IF pos = 0 /\ blob.content = "pdf" /\ Len(blob.pages) >= 1
                THEN "image" ELSE "stop",
        at  |-> pos]

(* --------------------------- the environment -------------------------- *)

NoFile == Blob("none", "none", <<>>)

\* The files a user uploads: a PDF with text on its first and third page, a
\* PDF whose pages hold blanks or nothing (a scan), a .pdf that is no PDF
\* and a PNG;
PoBlobs ==
  { Blob("pdf", "pdf", << <<"a">>, <<>>, <<"b", " ">> >>),
    Blob("pdf", "pdf", << <<" ">>, <<>> >>),
    Blob("pdf", "junk", <<>>),
    Blob("png", "image", <<>>) }

\* for the invoice also a PDF without pages and a .png that is no image.
InvoiceBlobs ==
  PoBlobs \cup { Blob("pdf", "pdf", <<>>), Blob("png", "junk", <<>>) }

Quoted(s) == <<"\"">> \o s \o <<"\"">>
Member(k, text) == IF text = <<>> THEN <<>> ELSE Quoted(k) \o <<":">> \o text
Object(members) == <<"{">> \o Join(SelectNonEmpty(members), <<",">>) \o <<"}">>

AcmeCo == <<"A", "c", "m", "e", " ", "C", "o">>
acme_co == <<"a", "c", "m", "e", " ", "c", "o">>
OneItem ==
  <<"[">> \o Object(<< Member(<<"d", "e", "s", "c", "r", "i", "p", "t", "i", "o", "n">>,
                              Quoted(<<"x">>)),
                       Member(<<"q", "u", "a", "n", "t", "i", "t", "y">>, <<"1">>),
                       Member(<<"p", "r", "i", "c", "e">>, <<"2">>) >>) \o <<"]">>

\* The text of one record of an answer; an empty vendor, total or items
\* leaves the key out.
RecordText(k_no, vendor, total, items) ==
  Object(<< Member(k_no, Quoted(<<"7">>)),
            Member(K_vendor, IF vendor = <<>> THEN <<>> ELSE Quoted(vendor)),
            Member(K_total, total),
            Member(K_items, items) >>)

InvoiceTexts ==
  { RecordText(K_invoice_no, AcmeCo, <<"1", "0", "0", ".", "0", "0">>, OneItem),
    RecordText(K_invoice_no, AcmeCo, <<"0", ".", "0", "2">>, <<>>) }

\* <<>>: the answer has no "po_data" key.
PoTexts ==
  { RecordText(K_po_no, AcmeCo, <<"1", "0", "0", ".", "0", "0">>, OneItem),
    RecordText(K_po_no, acme_co, <<"1", "0", "0", ".", "0", "0">>, <<>>),
    RecordText(K_po_no, AcmeCo, <<"1", "0", "0", ".", "0", "0", "5">>, <<>>),
    RecordText(K_po_no, AcmeCo, <<"1", "0", "0", ".", "0", "1">>, <<>>),
    RecordText(K_po_no, AcmeCo, <<"0", ".", "0", "3">>, <<>>),
    <<>> }

\* The answers that are JSON of the prompt's schema (lines 41-53), some
\* keys missing. Their totals are in Amounts.
Bodies ==
  { Object(<< Member(K_invoice_data, i), Member(K_po_data, p) >>) :
      i \in InvoiceTexts, p \in PoTexts }

\* An answer as the oracle words it: bare, or in a fenced code block with
\* or without the language tag, with white space around it.
Wrap(style, body) ==
  IF style = "json" THEN <<" ">> \o FenceJson \o <<"\n">> \o body \o <<"\n">> \o Fence \o <<"\n">>
  ELSE IF style = "fence" THEN Fence \o <<"\n">> \o body \o <<"\n">> \o Fence
  ELSE body

\* One of the Bodies, which the oracle also sends fenced.
FencedBody ==
  Object(<< Member(K_invoice_data,
                   RecordText(K_invoice_no, AcmeCo, <<"0", ".", "0", "2">>, <<>>)),
            Member(K_po_data,
                   RecordText(K_po_no, AcmeCo, <<"1", "0", "0", ".", "0", "1">>, <<>>)) >>)

\* Answers json.loads rejects: a trailing comma, bare and fenced.
Malformed ==
  LET t == <<"{">> \o Member(K_invoice_data, <<"{", "}">>) \o <<",", "}">>
  IN  {t, Wrap("json", t)}

\* What generate_content does: it answers with a text, or it raises.
OracleOutcomes ==
  {[kind |-> "error", text |-> <<>>]}
    \cup {[kind |-> "answer", text |-> t] :
            t \in Bodies \cup {Wrap("json", FencedBody), Wrap("fence", FencedBody)}
                    \cup Malformed}

NoOutcome == [kind |-> "none", text |-> <<>>]

\* What a user types into a widget of the result tabs.
Edits ==
  { [key |-> <<"invoice", "vendor">>, val |-> JStr(acme_co)],
    [key |-> <<"po", "total">>, val |-> JNum(30, 3)],
    [key |-> <<"po", "items">>, val |-> JList(<<>>)] }

NoEdit == [key |-> <<"none", "none">>, val |-> JNone]

(* ------------------------------- state -------------------------------- *)

VARIABLES
  invoice_file, po_file,   \* the uploads (line 239-240), NoFile before one
  invoice_pos, po_pos,     \* their stream positions
  session_state,           \* st.session_state: key -> value, keys as present
  widgets,                 \* the state of the widgets the last run drew
  runs,                    \* the compare runs started
  typed,                   \* the last edit the user typed
  pc,                      \* "idle", or where the running script stands
  trigger,                 \* the widget that started the last run
  outcome,                 \* how the last run ended
  invoice_text, po_text,   \* lines 257-258
  payload,                 \* lines 266, 272
  response,                \* the outcome of generate_content (line 99)
  oracle_calls,            \* the calls of generate_content in the last run
  analysis,                \* lines 267, 273
  invoice_data, po_data,   \* lines 277-278
  signal,                  \* the error get_gemini_response showed
  match_status,            \* line 298, "none" while nothing is shown
  reads,                   \* the reads of the blobs in the last run
  seeded,                  \* whether the last run stored records
  body, fenced, result     \* the fence study: a body, its wrapping, the parse

vars ==
  <<invoice_file, po_file, invoice_pos, po_pos, session_state, widgets, runs,
    typed, pc, trigger, outcome, invoice_text, po_text, payload, response,
    oracle_calls, analysis, invoice_data, po_data, signal, match_status, reads,
    seeded, body, fenced, result>>

fenceVars == <<body, fenced, result>>
fileVars == <<invoice_file, po_file>>

NoPayload == [template |-> "none", parts |-> <<>>]
Part(kind, label, text) == [kind |-> kind, label |-> label, text |-> text]
Read(op, doc, at) == [op |-> op, doc |-> doc, at |-> at]

Empty == [k \in {} |-> JNone]

\* The session as the first script run finds it.
NewSession ==
  /\ invoice_file = NoFile /\ po_file = NoFile
  /\ invoice_pos = 0 /\ po_pos = 0
  /\ session_state = Empty
  /\ widgets = Empty
  /\ runs = 0
  /\ typed = NoEdit
  /\ pc = "idle"
  /\ trigger = "none"
  /\ outcome = "none"
  /\ invoice_text = <<>> /\ po_text = <<>>
  /\ payload = NoPayload
  /\ response = NoOutcome
  /\ oracle_calls = 0
  /\ analysis = EmptyDict
  /\ invoice_data = EmptyDict /\ po_data = EmptyDict
  /\ signal = "none"
  /\ match_status = "none"
  /\ reads = <<>>
  /\ seeded = FALSE

NoResult == [analysis |-> EmptyDict, signal |-> "unasked"]

Init ==
  /\ NewSession
  /\ body = <<>> /\ fenced = <<>> /\ result = NoResult

\* A script run that has not reached the oracle has none of a run's results.
NoResults ==
  /\ response' = NoOutcome
  /\ oracle_calls' = 0
  /\ analysis' = EmptyDict
  /\ invoice_data' = EmptyDict /\ po_data' = EmptyDict
  /\ signal' = "none"
  /\ match_status' = "none"
  /\ seeded' = FALSE

\* A run started by a widget other than "View Matching": compare_button is
\* False, the block of line 250 is skipped, and the widgets it would draw
\* lose their state as the run ends.
RerunWithoutCompare(by) ==
  /\ pc' = "idle"
  /\ trigger' = by
  /\ outcome' = "skipped"
  /\ widgets' = Empty
  /\ invoice_text' = <<>> /\ po_text' = <<>>
  /\ reads' = <<>>
  /\ payload' = NoPayload
  /\ NoResults
  /\ UNCHANGED <<session_state, runs, fenceVars>>

(* ------------------------------ the script ---------------------------- *)

RecalculateButton == <<"tab1", "recalculate">>

\* Where a blob's stream stands after file.read() or after the image has
\* been loaded.
EndOfBlob == BlobLen

\* Lines 257-258: pdfplumber seeks in the stream as it parses.
TextReads == <<Read("text", "invoice", 0), Read("text", "po", 0)>>

\* A run that st.stop() or an exception ends before the oracle is called.
Aborted(how, rs, ipos, ppos) ==
  /\ pc' = "idle"
  /\ outcome' = how
  /\ reads' = rs
  /\ invoice_pos' = ipos /\ po_pos' = ppos
  /\ payload' = NoPayload
  /\ widgets' = Empty

\* Lines 264-267: the text payload; the streams were rewound at 261-262.
TextPath(it, pt) ==
  /\ payload' = [template |-> "TEXT_PROMPT",
                 parts |-> <<Part("text", "INVOICE TEXT", it),
                             Part("text", "PO TEXT", pt)>>]
  /\ reads' = TextReads
  /\ invoice_pos' = 0 /\ po_pos' = 0
  /\ pc' = "call"
  /\ outcome' = "running"
  /\ UNCHANGED widgets

\* Lines 268-273: the two images, then the image payload.
ImagePath ==
  LET r1 == PrepareImage(invoice_file, 0)
      r2 == PrepareImage(po_file, 0)
      s1 == Append(TextReads, Read("render", "invoice", r1.at))
      s2 == Append(s1, Read("render", "po", r2.at))
  IN  IF r1.res # "image"
      THEN Aborted(IF r1.res = "stop" THEN "render_stop" ELSE "render_raise",
                   s1, EndOfBlob, 0)
      ELSE IF r2.res # "image"
      THEN Aborted(IF r2.res = "stop" THEN "render_stop" ELSE "render_raise",
                   s2, EndOfBlob, EndOfBlob)
      ELSE /\ payload' = [template |-> "IMAGE_PROMPT",
                          parts |-> <<Part("image", "invoice", <<>>),
                                      Part("image", "po", <<>>)>>]
           /\ reads' = s2
           /\ invoice_pos' = EndOfBlob /\ po_pos' = EndOfBlob
           /\ pc' = "call"
           /\ outcome' = "running"
           /\ UNCHANGED widgets

\* A click on "View Matching": the script from line 250 to the call of
\* get_gemini_response.
ViewMatching ==
  /\ pc = "idle" /\ runs < MaxRuns
  /\ runs' = runs + 1
  /\ trigger' = "compare"
  /\ NoResults
  /\ UNCHANGED <<fileVars, session_state, typed, fenceVars>>
  /\ IF invoice_file = NoFile \/ po_file = NoFile
     THEN /\ Aborted("no_files", <<>>, invoice_pos, po_pos)
          /\ invoice_text' = <<>> /\ po_text' = <<>>
     ELSE LET it == GetTextWithPdfplumber(invoice_file)
              pt == GetTextWithPdfplumber(po_file)
          IN  /\ invoice_text' = it /\ po_text' = pt
              /\ IF it # <<>> /\ pt # <<>> THEN TextPath(it, pt) ELSE ImagePath

\* AfterCall with a retry: a failed call is made again.
AfterCallRetry(o) == IF o.kind = "error" THEN "call" ELSE "parse"

\* Where get_gemini_response goes on after generate_content: to the parse
\* of the answer or to a handler, never back to the call.
AfterCall(o) == "parse"

\* Line 99: the one call of the oracle.
GenerateContent ==
  /\ pc = "call"
  /\ \E o \in OracleOutcomes :
       /\ response' = o
       /\ pc' = AfterCall(o)
  /\ oracle_calls' = oracle_calls + 1
  /\ UNCHANGED <<fileVars, invoice_pos, po_pos, session_state, widgets, runs,
                 typed, trigger, outcome, invoice_text, po_text, payload,
                 analysis, invoice_data, po_data, signal, match_status, reads,
                 seeded, fenceVars>>

\* Lines 280-283: a record is stored only under a key not yet present.
Seed(ss, inv, po) ==
  LET s1 == IF "invoice_data" \in DOMAIN ss THEN ss ELSE ss @@ ("invoice_data" :> inv)
  IN  IF "po_data" \in DOMAIN s1 THEN s1 ELSE s1 @@ ("po_data" :> po)

\* f with key k set to v.
Put(f, k, v) == [x \in DOMAIN f \cup {k} |-> IF x = k THEN v ELSE f[x]]

\* Lines 291-293: the stored records after the "Recalculate Match" test.
Recalculated(ss, recalculate) ==
  IF recalculate
  THEN Put(Put(ss, "invoice_data", ss["edited_invoice_data"]),
           "po_data", ss["edited_po_data"])
  ELSE ss

\* Lines 314 and 318: the stored dicts are the objects editable_display_doc
\* changes, and the edited_ keys name the same objects.
Displayed(ss, invd, pod) ==
  Put(Put(Put(Put(ss, "invoice_data", invd), "edited_invoice_data", invd),
          "po_data", pod), "edited_po_data", pod)

\* How a run ends whose preview (lines 326 and 328) renders with results
\* p1 and p2.
PreviewOutcome(p1, p2) ==
  IF p1.res = "stop" \/ (p1.res = "image" /\ p2.res = "stop") THEN "preview_stop"
  ELSE IF p1.res = "raise" \/ p2.res = "raise" THEN "preview_raise"
  ELSE "done"

\* Lines 100-328: the parse of the answer and the rest of the script. Each
\* value is bound once, in the order the script computes it.
ShowResults ==
  /\ pc = "parse"
  /\ \E g \in {GetGeminiResponse(response)} :
     \E inv \in {DictGet(g.analysis, K_invoice_data, EmptyDict)},
        po \in {DictGet(g.analysis, K_po_data, EmptyDict)} :
     \E ss \in {Recalculated(Seed(session_state, inv, po), trigger = "recalculate")} :
     \E invd \in {EditableDisplayDoc(ss["invoice_data"], "invoice", widgets)},
        pod \in {EditableDisplayDoc(ss["po_data"], "po", widgets)},
        p1 \in {PrepareImage(invoice_file, invoice_pos)},
        p2 \in {PrepareImage(po_file, po_pos)} :
       /\ analysis' = g.analysis
       /\ signal' = g.signal
       /\ seeded' = ("invoice_data" \notin DOMAIN session_state
                       \/ "po_data" \notin DOMAIN session_state)
       /\ match_status' = MatchStatus(ss["invoice_data"], ss["po_data"])
       /\ session_state' = Displayed(ss, invd, pod)
       \* the locals of lines 277-278 are the stored objects where they
       \* were stored
       /\ invoice_data' = IF "invoice_data" \in DOMAIN session_state THEN inv ELSE invd
       /\ po_data' = IF "po_data" \in DOMAIN session_state THEN po ELSE pod
       /\ widgets' = (RecalculateButton :> JBool(FALSE))
                       @@ DisplayWidgets(invd, "invoice") @@ DisplayWidgets(pod, "po")
       /\ outcome' = PreviewOutcome(p1, p2)
       /\ invoice_pos' = EndOfBlob
       /\ IF p1.res # "image"
          THEN /\ reads' = Append(reads, Read("preview", "invoice", p1.at))
               /\ UNCHANGED po_pos
          ELSE /\ reads' = reads \o <<Read("preview", "invoice", p1.at),
                                      Read("preview", "po", p2.at)>>
               /\ po_pos' = EndOfBlob
  /\ pc' = "idle"
  /\ UNCHANGED <<fileVars, runs, typed, trigger, invoice_text, po_text, payload,
                 response, oracle_calls, fenceVars>>

\* The user changes a widget of the Invoice or Purchase Order tab.
EditWidget ==
  /\ pc = "idle"
  /\ \E e \in Edits :
       /\ e.key \in DOMAIN widgets
       /\ e.val # widgets[e.key]
       /\ typed' = e
  /\ RerunWithoutCompare("edit")
  /\ UNCHANGED <<fileVars, invoice_pos, po_pos>>

\* A click on "Recalculate Match" (line 290).
RecalculateMatch ==
  /\ pc = "idle"
  /\ RecalculateButton \in DOMAIN widgets
  /\ RerunWithoutCompare("recalculate")
  /\ UNCHANGED <<fileVars, invoice_pos, po_pos, typed>>

\* The user picks a file in the sidebar (lines 239-240).
UploadInvoice ==
  /\ pc = "idle"
  /\ \E b \in InvoiceBlobs \ {invoice_file} : invoice_file' = b
  /\ invoice_pos' = 0
  /\ RerunWithoutCompare("upload")
  /\ UNCHANGED <<po_file, po_pos, typed>>

UploadPo ==
  /\ pc = "idle"
  /\ \E b \in PoBlobs \ {po_file} : po_file' = b
  /\ po_pos' = 0
  /\ RerunWithoutCompare("upload")
  /\ UNCHANGED <<invoice_file, invoice_pos, typed>>

Next ==
  \/ UploadInvoice
  \/ UploadPo
  \/ ViewMatching
  \/ GenerateContent
  \/ ShowResults
  \/ EditWidget
  \/ RecalculateMatch

Spec == Init /\ [][Next]_vars

(* --------------------------- the fence study -------------------------- *)
(* get_gemini_response on every short body, bare and fenced.              *)

\* The characters of the bodies: JSON's punctuation, a digit and a blank.
BodyAlphabet == {"[", "]", "{", "}", ",", "1", " "}

BodyTexts == UNION {[1..n -> BodyAlphabet] : n \in 0..MaxBodyLen}

\* White space around the fence markers, and between them and the body.
OuterSpace == {<<>>, <<"\n", " ">>}
InnerSpace == {<<>>, <<"\n">>}

Answer(text) == [kind |-> "answer", text |-> text]

FenceInit ==
  /\ NewSession
  /\ body \in BodyTexts
  /\ fenced = <<>>
  /\ result = NoResult

FenceUnchanged ==
  UNCHANGED <<invoice_file, po_file, invoice_pos, po_pos, session_state,
              widgets, runs, typed, pc, trigger, outcome, invoice_text,
              po_text, payload, response, oracle_calls, analysis,
              invoice_data, po_data, signal, match_status, reads, seeded, body>>

\* The oracle sends the body in a ```json fence.
AnswerTagged ==
  /\ result = NoResult
  /\ \E a \in OuterSpace, b \in InnerSpace, c \in InnerSpace, d \in OuterSpace :
       fenced' = a \o FenceJson \o b \o body \o c \o Fence \o d
  /\ result' = GetGeminiResponse(Answer(fenced'))
  /\ FenceUnchanged

\* The oracle sends the body in a ``` fence without a tag.
AnswerUntagged ==
  /\ result = NoResult
  /\ \E a \in OuterSpace, b \in InnerSpace, c \in InnerSpace, d \in OuterSpace :
       fenced' = a \o Fence \o b \o body \o c \o Fence \o d
  /\ result' = GetGeminiResponse(Answer(fenced'))
  /\ FenceUnchanged

FenceNext == AnswerTagged \/ AnswerUntagged

FenceSpec == FenceInit /\ [][FenceNext]_vars

(* ------------------------------- claims ------------------------------- *)

\* The last run was started by "View Matching" with both files uploaded.
CompareRun == trigger = "compare" /\ outcome # "no_files"

\* The run has gone through the script to the result tabs.
ResultsShown == pc = "idle" /\ outcome \in {"done", "preview_stop", "preview_raise"}

\* The run was ended inside prepare_image before the oracle was called.
RenderAborted == pc = "idle" /\ outcome \in {"render_stop", "render_raise"}

\* The blob is a PDF one of whose pages holds a character that is no white
\* space.
HasText(blob) ==
  /\ blob.content = "pdf"
  /\ \E i \in 1..Len(blob.pages) :
       \E j \in 1..Len(blob.pages[i]) : blob.pages[i][j] \notin WS

BothHaveText == HasText(invoice_file) /\ HasText(po_file)

TextPayload ==
  payload = [template |-> "TEXT_PROMPT",
             parts |-> <<Part("text", "INVOICE TEXT", invoice_text),
                         Part("text", "PO TEXT", po_text)>>]

ImagePayload ==
  payload = [template |-> "IMAGE_PROMPT",
             parts |-> <<Part("image", "invoice", <<>>), Part("image", "po", <<>>)>>]

C2_StoreHoldsLatestAnswer ==
  ResultsShown =>
    /\ session_state["invoice_data"]
         = EditableDisplayDoc(DictGet(analysis, K_invoice_data, EmptyDict), "invoice", Empty)
    /\ session_state["po_data"]
         = EditableDisplayDoc(DictGet(analysis, K_po_data, EmptyDict), "po", Empty)
    /\ match_status = MatchStatus(DictGet(analysis, K_invoice_data, EmptyDict),
                                  DictGet(analysis, K_po_data, EmptyDict))

\* C3: the oracle is called exactly once in a run that reaches the client,
\* on either path and whatever the call's outcome: never before the call
\* site, once from the call on, never twice.
C3_OracleCalledOnce ==
  /\ oracle_calls <= 1
  /\ pc = "call" => oracle_calls = 0
  /\ (pc = "parse" \/ ResultsShown) => oracle_calls = 1
  /\ (pc = "idle" /\ ~ResultsShown) => oracle_calls = 0

\* C3 witness: a finished run on the text path whose one call failed.
C3_Witness ==
  /\ ResultsShown /\ response.kind = "error" /\ oracle_calls = 1
  /\ payload.template = "TEXT_PROMPT"

\* The record with the user's edit e written into it, for the document
\* doc.
ApplyEdit(data, doc, e) ==
  IF e.key[1] # doc THEN data
  ELSE IF e.key[2] = "vendor" THEN DictSet(data, K_vendor, e.val)
  ELSE IF e.key[2] = "total" THEN DictSet(data, K_total, e.val)
  ELSE DictSet(data, K_items, e.val)

\* C4 (as claimed): once the user has edited a record, a run started by
\* "Recalculate Match" shows a verdict, and every verdict shown is the one
\* of the records with the edit in them.
C4_VerdictUsesEdits ==
  typed # NoEdit =>
    /\ trigger = "recalculate" => match_status # "none"
    /\ match_status # "none" =>
         match_status = MatchStatus(ApplyEdit(session_state["invoice_data"], "invoice", typed),
                                    ApplyEdit(session_state["po_data"], "po", typed))

\* The rule of the claim on exact amounts: equal vendor strings and totals
\* less than 0.01 apart.
ExactRule(invoice, po) ==
  /\ DictGet(invoice, K_vendor, JNone) = DictGet(po, K_vendor, JNone)
  /\ Abs(Float(DictGet(invoice, K_total, Zero)) - Float(DictGet(po, K_total, Zero)))
       < Tolerance

\* C5 (as claimed): the verdict on the records a run stores is the approval
\* exactly when the vendors are equal strings and the totals differ by less
\* than 0.01; totals exactly 0.01 apart need review.
C5_VerdictIsExactRule ==
  (ResultsShown /\ seeded) =>
    (match_status = "APPROVED"
       <=> ExactRule(DictGet(analysis, K_invoice_data, EmptyDict),
                     DictGet(analysis, K_po_data, EmptyDict)))

\* A blob prepare_image cannot render: a .pdf that is no PDF or has no page.
Unrenderable(blob) ==
  blob.ext = "pdf" /\ (blob.content # "pdf" \/ Len(blob.pages) = 0)

\* C6: on the image path, when either blob cannot be rendered the run is
\* aborted: the oracle is not called, nothing is stored, no verdict is
\* shown. A failure of the text extraction aborts nothing: the text is
\* empty and the run goes on to render the images.
C6_RenderFailureAborts ==
  CompareRun =>
    /\ (~BothHaveText /\ (Unrenderable(invoice_file) \/ Unrenderable(po_file))) =>
         /\ RenderAborted
         /\ oracle_calls = 0 /\ response = NoOutcome
         /\ ~seeded /\ match_status = "none" /\ payload = NoPayload
    /\ invoice_file.content # "pdf" =>
         /\ invoice_text = <<>>
         /\ Len(reads) >= 3 /\ reads[3] = Read("render", "invoice", 0)
    /\ (po_file.content # "pdf" /\ PrepareImage(invoice_file, 0).res = "image") =>
         /\ po_text = <<>>
         /\ Len(reads) >= 4 /\ reads[4] = Read("render", "po", 0)

\* C6 witness: the invoice was rendered, the purchase order could not be,
\* and the run stopped there.
C6_Witness ==
  /\ CompareRun /\ outcome = "render_stop"
  /\ ~Unrenderable(invoice_file) /\ Unrenderable(po_file)
  /\ Len(reads) = 4

\* The fields of a record as the script reads them are the defaults.
DefaultRecord(data) ==
  /\ DictGet(data, K_vendor, NA) = NA
  /\ Float(DictGet(data, K_total, Zero)) = 0
  /\ DictGet(data, K_items, JList(<<>>)).items = <<>>

\* C7: an answer that is no JSON does not end the run: the client shows the
\* malformed-response error, returns the empty result, both records of the
\* run hold the defaults, and the run goes on to store, verdict and display.
C7_MalformedGivesDefaults ==
  (pc = "idle" /\ response.kind = "answer" /\ response.text \in Malformed) =>
    /\ signal = "MalformedResponse"
    /\ analysis = EmptyDict
    /\ DefaultRecord(invoice_data) /\ DefaultRecord(po_data)
    /\ ResultsShown
    /\ match_status # "none"
    /\ {"invoice_data", "po_data"} \subseteq DOMAIN session_state
    /\ RecalculateButton \in DOMAIN widgets

\* C7 witness: a run whose answer had a trailing comma went on to display.
C7_Witness ==
  /\ ResultsShown /\ response.text \in Malformed /\ signal = "MalformedResponse"
  /\ seeded

\* C8 (as claimed): every read of a blob in a run starts at the beginning
\* of the blob.
C8_ReadsStartAtZero == \A i \in 1..Len(reads) : reads[i].at = 0

\* C9: an answer that wraps a body in a fenced code block, tagged or not,
\* with white space around it, gives the result of the bare body.
C9_FencedParsesAsBare ==
  result # NoResult => result = GetGeminiResponse(Answer(body))

\* C9 witness: a fenced list of one element, parsed to that list.
C9_Witness ==
  /\ body = <<"[", "1", "]">>
  /\ StartsWith(fenced, Fence \o <<"\n">>)
  /\ result.signal = "none" /\ result.analysis = JList(<<JNum(1, 0)>>)

\* C10: in the first run of a session, when the call fails or the answer
\* is no JSON, the verdict shown is the approval.
C10_FirstRunFailureApproved ==
  (runs = 1 /\ pc = "idle"
     /\ (response.kind = "error" \/ (response.kind = "answer" /\ response.text \in Malformed)))
    => match_status = "APPROVED"

\* C10 witness: the first run, its call failed, the approval shown.
C10_Witness ==
  /\ runs = 1 /\ ResultsShown /\ response.kind = "error"
  /\ match_status = "APPROVED" /\ signal = "OracleFailure"

====
